---- MODULE Spec2Model ----
(***************************************************************************)
(* Model of CustomBmpDumper (src/bmp/extract_bmp.py): the chunk reader     *)
(* next_data, the back-reference decompressor decompress_next and the      *)
(* scanline assembler write_data, as one sequential state machine.         *)
(*                                                                         *)
(* Byte strings (bytes, bytearray) are sequences over 0..255; a Python     *)
(* index i is the TLA+ index i+1.  The pixel rows written to self.out are  *)
(* the sequence out (the container headers written by write() before       *)
(* write_data are not part of it).                                         *)
(***************************************************************************)
EXTENDS Integers, Sequences, FiniteSets, TLC

\* ------------------------------------------------------------------ bounds
MaxChunks == 2
MaxTrunc  == 1
MaxWidth  == 2
MaxHeight == 2

\* ------------------------------------------------------- program constants
BMP_DECOMPRESS_BUFFER_SIZE == 1500

\* --------------------------------------------------------- error messages
ErrNone          == "none"
ErrOverflow      == "BmpDumpingException: Decompress buffer overflow"
ErrInvalidOffset == "BmpDumpingException: Invalid compression offset"
ErrIndex         == "IndexError"

\* ----------------------------------------------------------- pure helpers
Min(a, b) == IF a <= b THEN a ELSE b
Max(a, b) == IF a >= b THEN a ELSE b

\* align(value, alignment): (value + alignment - 1) & ~(alignment - 1),
\* alignment a power of two.
align(value, alignment) == ((value + alignment - 1) \div alignment) * alignment

Zeros(n) == [i \in 1..n |-> 0]

\* Python's clamping of a slice bound against a sequence of length n.
PyClamp(i, n) == IF i < 0 THEN Max(n + i, 0) ELSE Min(i, n)

\* s[lo:hi]
PySlice(s, lo, hi) ==
    LET l == PyClamp(lo, Len(s))
        h == Max(l, PyClamp(hi, Len(s)))
    IN  SubSeq(s, l + 1, h)

\* s[lo:hi] = v  on a bytearray: the slice is replaced by v, whatever the
\* length of v is, so the bytearray grows or shrinks.
PySliceAssign(s, lo, hi, v) ==
    LET l == PyClamp(lo, Len(s))
        h == Max(l, PyClamp(hi, Len(s)))
    IN  SubSeq(s, 1, l) \o v \o SubSeq(s, h + 1, Len(s))

\* s[i] for an index the interpreter accepts (-len <= i < len).
PyIndex(s, i) == IF i < 0 THEN s[Len(s) + i + 1] ELSE s[i + 1]

PyIndexOk(s, i) == i < Len(s) /\ i >= 0 - Len(s)

\* struct.unpack("<H", ...)
U16LE(b0, b1) == b0 + 256 * b1

\* self.reader.read(n) at reader position p
ReaderRead(s, p, n) == PySlice(s, p, p + n)
ReaderTell(s, p, n) == Min(p + n, Len(s))

\* ----------------------------------------------------------------- inputs
\* Chunks (4-byte descriptor followed by the payload) the streams are built
\* from.  Raw chunks: declared decompressed size <= declared compressed size.
RawA      == <<3, 0, 3, 0, 17, 18, 19>>
RawB      == <<2, 0, 5, 0, 33, 34>>
RawEmpty  == <<0, 0, 0, 0>>
RawSix    == <<6, 0, 6, 0, 49, 50, 51, 52, 53, 54>>
RawOver   == <<221, 5, 221, 5>>
PartHdr   == <<3, 0>>
\* Compressed chunks: first literal, then command bytes and their units.
\* 0x41, cmd 0xC0: token(offset 1, count 7), sentinel      -> 8 bytes
CompRun   == <<8, 0, 6, 0, 65, 192, 11, 1, 0, 0>>
\* 0x41, cmd 0xC0: token(offset 1, count 5), sentinel      -> 6 bytes of 7
CompShort == <<7, 0, 6, 0, 65, 192, 13, 1, 0, 0>>
\* 0x41, cmd 0x60: literal 0x42, token(offset 2, count 5), sentinel
CompPat   == <<12, 0, 7, 0, 65, 96, 66, 13, 2, 0, 0>>
\* 0x41, cmd 0xC0: token(offset 1, b3 = 2: count 20), sentinel
CompLong  == <<21, 0, 7, 0, 65, 192, 0, 1, 2, 0, 0>>
\* 0x41, cmd 0x80: token(offset 5, count 5) at cursor 1
CompBad   == <<9, 0, 4, 0, 65, 128, 13, 5>>
\* 0x41, cmd 0x80: sentinel with low nibble 7, then two unread bytes
CompStop  == <<9, 0, 6, 0, 65, 128, 7, 0, 153, 152>>
\* 0x41, cmd 0x00 and 8 literals
CompLit   == <<11, 0, 10, 0, 65, 0, 66, 67, 68, 69, 70, 71, 72, 73>>
\* declares 65535 decompressed bytes, payload of one literal
CompHuge  == <<255, 255, 1, 0, 65>>
\* 0x41, cmd 0xFC: six tokens(offset 1, b3 = 255: count 273)
CompOver  == <<220, 5, 20, 0, 65, 252, 0, 1, 255, 0, 1, 255, 0, 1, 255,
               0, 1, 255, 0, 1, 255, 0, 1, 255>>

\* 0x41, cmd 0x00, two of the eight literals the command byte announces
CompMid   == <<5, 0, 4, 0, 65, 0, 66, 67>>
\* declares 11 payload bytes and carries 10: 0x41, cmd 0x00, 8 literals
CompLitShort == <<12, 0, 11, 0, 65, 0, 66, 67, 68, 69, 70, 71, 72, 73>>
\* declares 1500 decompressed bytes: 0x41, cmd 0x40: literal, sentinel
CompCap   == <<220, 5, 5, 0, 65, 64, 66, 0, 0>>
\* A raw chunk that fills the scratch buffer exactly, and the same
\* descriptor with no payload behind it.
RawFull     == <<220, 5, 220, 5>> \o [i \in 1..BMP_DECOMPRESS_BUFFER_SIZE |-> i % 251]
RawFullBare == <<220, 5, 220, 5>>

\* chunks that are combined freely
ChunkLib == {RawA, RawB, RawEmpty, CompRun, CompShort, CompPat}
\* chunks that are tried alone, after a raw chunk and before one
SpecialChunks == {RawSix, PartHdr, RawOver, RawFull, RawFullBare, CompLong, CompBad, CompStop,
                  CompLit, CompHuge, CompOver, CompMid, CompCap,
                  CompLitShort}

RECURSIVE ConcatsUpTo(_)
ConcatsUpTo(n) ==
    IF n = 0 THEN {<< >>}
    ELSE LET prev == ConcatsUpTo(n - 1)
         IN  prev \cup {s \o c : s \in prev, c \in ChunkLib}

Specials == SpecialChunks \cup {RawA \o c : c \in SpecialChunks}
                          \cup {c \o RawA : c \in SpecialChunks}
                          \cup {RawSix \o RawSix}

Truncations(s) == {SubSeq(s, 1, Len(s) - t) : t \in 0..Min(MaxTrunc, Len(s))}

Streams == UNION {Truncations(s) : s \in ConcatsUpTo(MaxChunks) \cup Specials}

BitsPerPixel == {4, 8, 24, 32}

VARIABLES
    stream,             \* in_data behind the custom header and palette
    rpos,               \* self.reader position in stream
    bits_per_pixel, width, height,
    decompress_buffer, decompress_pos, decompress_size,
    image_data, y, remaining, offset,     \* locals of write_data
    compressed_size, compressed_data, cursor, command_byte, unit,
                                          \* locals of decompress_next
    out,                \* pixel bytes written to self.out
    pc, err,
    nd,                 \* how the last next_data call ended
    decoded,            \* history: decoded content of every loaded chunk
    eof_hit,            \* history: a descriptor read came up short
    short_payload,      \* history: a payload read came up short
    min_read,           \* history: lowest index a back-reference read
    fresh               \* history: leading scratch bytes the last load wrote

vars == <<stream, rpos, bits_per_pixel, width, height, decompress_buffer,
          decompress_pos, decompress_size, image_data, y, remaining, offset,
          compressed_size, compressed_data, cursor, command_byte, unit,
          out, pc, err, nd, decoded, eof_hit, short_payload, min_read,
          fresh>>

inputs  == <<stream, bits_per_pixel, width, height>>
wlocals == <<image_data, y, remaining, offset>>
dlocals == <<compressed_size, compressed_data, cursor, command_byte, unit>>
hist    == <<decoded, eof_hit, short_payload, min_read, fresh>>

\* scan_line_len and out_stride_in_bytes
scan_line_len       == align(width * bits_per_pixel, 8) \div 8
out_stride_in_bytes == align(width * bits_per_pixel, 32) \div 8
row_start           == scan_line_len * (height - y - 1)

Init ==
    /\ stream \in Streams
    /\ bits_per_pixel \in BitsPerPixel
    /\ width \in 0..MaxWidth
    /\ height \in 0..MaxHeight
    /\ rpos = 0
    /\ decompress_buffer = Zeros(BMP_DECOMPRESS_BUFFER_SIZE)
    /\ decompress_pos = 0
    /\ decompress_size = 0
    /\ image_data = << >>
    /\ y = 0 /\ remaining = 0 /\ offset = 0
    /\ compressed_size = 0 /\ compressed_data = << >>
    /\ cursor = 0 /\ command_byte = 0 /\ unit = 0
    /\ out = << >>
    /\ pc = "write_data" /\ err = ErrNone
    /\ nd = "none"
    /\ decoded = << >>
    /\ eof_hit = FALSE /\ short_payload = FALSE
    /\ min_read = BMP_DECOMPRESS_BUFFER_SIZE
    /\ fresh = 0


\* ------------------------------------------------------------- write_data
\* scan_line_len = ...; image_data = bytearray(scan_line_len * self.height)
WriteDataStart ==
    /\ pc = "write_data"
    /\ image_data' = Zeros(scan_line_len * height)
    /\ y' = 0
    /\ pc' = "row"
    /\ UNCHANGED <<inputs, rpos, decompress_buffer, decompress_pos,
                   decompress_size, remaining, offset, dlocals, out, err,
                   nd, hist>>

\* for y in range(self.height): remaining = scan_line_len; offset = 0
RowStart ==
    /\ pc = "row"
    /\ y < height
    /\ remaining' = scan_line_len
    /\ offset' = 0
    /\ pc' = "while"
    /\ UNCHANGED <<inputs, rpos, decompress_buffer, decompress_pos,
                   decompress_size, image_data, y, dlocals, out, err, nd,
                   hist>>

\* a row written to the output stream as soon as it is staged
RowDoneEager ==
    /\ pc = "while"
    /\ remaining <= 0
    /\ y' = y + 1
    /\ pc' = "row"
    /\ out' = out \o PySlice(image_data, row_start, row_start + scan_line_len)
                  \o Zeros(out_stride_in_bytes - scan_line_len)
    /\ UNCHANGED <<inputs, rpos, decompress_buffer, decompress_pos,
                   decompress_size, image_data, remaining, offset, dlocals,
                   err, nd, hist>>

\* while remaining > 0: left with remaining <= 0, next y
RowDone ==
    /\ pc = "while"
    /\ remaining <= 0
    /\ y' = y + 1
    /\ pc' = "row"
    /\ UNCHANGED <<inputs, rpos, decompress_buffer, decompress_pos,
                   decompress_size, image_data, remaining, offset, dlocals,
                   out, err, nd, hist>>

\* a chunk fetched as soon as the buffer is used up, row filled or not
NeedChunkEager ==
    /\ pc = "while"
    /\ decompress_pos >= decompress_size

\* if self.decompress_pos >= self.decompress_size: self.next_data()
NeedChunk ==
    /\ pc = "while"
    /\ remaining > 0
    /\ decompress_pos >= decompress_size

\* chunk = min(remaining, size - pos); if chunk > 0: copy and advance
CopyChunk ==
    /\ \/ pc = "copy"
       \/ pc = "while" /\ remaining > 0 /\ decompress_pos < decompress_size
    /\ LET chunk == Min(remaining, decompress_size - decompress_pos)
       IN  IF chunk > 0
           THEN /\ image_data' =
                     PySliceAssign(image_data, row_start + offset,
                                   row_start + offset + chunk,
                                   PySlice(decompress_buffer, decompress_pos,
                                           decompress_pos + chunk))
                /\ decompress_pos' = decompress_pos + chunk
                /\ offset' = offset + chunk
                /\ remaining' = remaining - chunk
           ELSE UNCHANGED <<image_data, decompress_pos, offset, remaining>>
    /\ pc' = "while"
    /\ nd' = "none"
    /\ UNCHANGED <<inputs, rpos, decompress_buffer, decompress_size, y,
                   dlocals, out, err, hist>>

\* the staging loop is over: padding = b'\x00' * (stride - scan_line_len)
EmitStart ==
    /\ pc = "row"
    /\ y >= height
    /\ y' = 0
    /\ pc' = "emit"
    /\ UNCHANGED <<inputs, rpos, decompress_buffer, decompress_pos,
                   decompress_size, image_data, remaining, offset, dlocals,
                   out, err, nd, hist>>

padding == Zeros(out_stride_in_bytes - scan_line_len)

\* self.out.write(image_data[y*len : (y+1)*len]); self.out.write(padding)
EmitRow ==
    /\ pc = "emit"
    /\ y < height
    /\ out' = out \o PySlice(image_data, y * scan_line_len,
                             (y + 1) * scan_line_len) \o padding
    /\ y' = y + 1
    /\ pc' = IF y + 1 < height THEN "emit" ELSE "done"
    /\ UNCHANGED <<inputs, rpos, decompress_buffer, decompress_pos,
                   decompress_size, image_data, remaining, offset, dlocals,
                   err, nd, hist>>

\* for y in range(self.height) with height 0: the body is not entered
EmitNoRows ==
    /\ pc = "emit"
    /\ y >= height
    /\ pc' = "done"
    /\ UNCHANGED <<inputs, rpos, decompress_buffer, decompress_pos,
                   decompress_size, image_data, y, remaining, offset, dlocals,
                   out, err, nd, hist>>

\* -------------------------------------------------------------- next_data
header         == ReaderRead(stream, rpos, 4)
next_decomp_sz == U16LE(header[1], header[2])
next_comp_sz   == U16LE(header[3], header[4])

\* if len(header) < 4: return
NextDataEof ==
    /\ NeedChunk
    /\ Len(header) < 4
    /\ decompress_pos' = 0
    /\ rpos' = ReaderTell(stream, rpos, 4)
    /\ pc' = "copy"
    /\ nd' = "eof"
    /\ eof_hit' = TRUE
    /\ fresh' = 0
    /\ UNCHANGED <<inputs, decompress_buffer, decompress_size, wlocals,
                   dlocals, out, err, decoded, short_payload, min_read>>

\* raw chunk larger than the buffer: raise "Decompress buffer overflow"
NextDataRawOverflow ==
    /\ NeedChunk
    /\ Len(header) = 4
    /\ next_decomp_sz <= next_comp_sz
    /\ next_decomp_sz > Len(decompress_buffer)
    /\ decompress_pos' = 0
    /\ rpos' = rpos + 4
    /\ pc' = "failed"
    /\ err' = ErrOverflow
    /\ UNCHANGED <<inputs, decompress_buffer, decompress_size, wlocals,
                   dlocals, out, nd, hist>>

\* a raw load that lands one byte too far into the buffer
RawLoadShifted(buf, n, data) == PySliceAssign(buf, 1, n + 1, data)

\* self.decompress_buffer[:self.decompress_size] = data
RawLoad(buf, n, data) == PySliceAssign(buf, 0, n, data)

\* raw chunk: self.decompress_buffer[:size] = self.reader.read(size)
NextDataRaw ==
    /\ NeedChunk
    /\ Len(header) = 4
    /\ next_decomp_sz <= next_comp_sz
    /\ next_decomp_sz <= Len(decompress_buffer)
    /\ LET data == ReaderRead(stream, rpos + 4, next_decomp_sz)
           buf  == RawLoad(decompress_buffer, next_decomp_sz, data)
       IN  /\ decompress_buffer' = buf
           /\ decoded' = decoded \o PySlice(buf, 0, next_decomp_sz)
           /\ short_payload' = (short_payload \/ Len(data) < next_decomp_sz)
           /\ fresh' = Len(data)
    /\ decompress_pos' = 0
    /\ decompress_size' = next_decomp_sz
    /\ rpos' = ReaderTell(stream, rpos + 4, next_decomp_sz)
    /\ pc' = "copy"
    /\ nd' = "raw"
    /\ UNCHANGED <<inputs, wlocals, dlocals, out, err, eof_hit, min_read>>

\* compressed chunk: size = next_decomp_sz; self.decompress_next(next_comp_sz)
NextDataCompressed ==
    /\ NeedChunk
    /\ Len(header) = 4
    /\ next_decomp_sz > next_comp_sz
    /\ decompress_pos' = 0
    /\ decompress_size' = next_decomp_sz
    /\ compressed_size' = next_comp_sz
    /\ rpos' = rpos + 4
    /\ pc' = "decompress_next"
    /\ UNCHANGED <<inputs, decompress_buffer, wlocals, compressed_data,
                   cursor, command_byte, unit, out, err, nd, hist>>


\* -------------------------------------------------------- decompress_next
\* compressed_data[i] / decompress_buffer[i] raise IndexError outside range
Fail(e) == pc' = "failed" /\ err' = e

\* normal return of decompress_next, hence of next_data
DecompressReturns ==
    /\ pc' = "copy"
    /\ nd' = "compressed"

\* compressed_data = self.reader.read(compressed_size); cursor = 0;
\* buffer[pos] = compressed_data[cursor]; pos += 1; cursor += 1
DecompressFirst ==
    /\ pc = "decompress_next"
    /\ LET data == ReaderRead(stream, rpos, compressed_size)
       IN  /\ compressed_data' = data
           /\ short_payload' = (short_payload \/ Len(data) < compressed_size)
           /\ IF PyIndexOk(data, 0) /\ PyIndexOk(decompress_buffer, decompress_pos)
              THEN /\ decompress_buffer' =
                        [decompress_buffer EXCEPT ![decompress_pos + 1] = PyIndex(data, 0)]
                   /\ decompress_pos' = decompress_pos + 1
                   /\ cursor' = 1
                   /\ pc' = "cmd"
                   /\ UNCHANGED err
              ELSE /\ Fail(ErrIndex)
                   /\ cursor' = 0
                   /\ UNCHANGED <<decompress_buffer, decompress_pos>>
    /\ rpos' = ReaderTell(stream, rpos, compressed_size)
    /\ UNCHANGED <<inputs, decompress_size, wlocals, compressed_size,
                   command_byte, unit, out, nd, decoded, eof_hit, min_read,
                   fresh>>

\* while cursor < len(compressed_data): command_byte = data[cursor]; cursor += 1
DecompressCommand ==
    /\ pc = "cmd"
    /\ cursor < Len(compressed_data)
    /\ command_byte' = PyIndex(compressed_data, cursor)
    /\ cursor' = cursor + 1
    /\ unit' = 0
    /\ pc' = "unit"
    /\ UNCHANGED <<inputs, rpos, decompress_buffer, decompress_pos,
                   decompress_size, wlocals, compressed_size, compressed_data,
                   out, err, nd, hist>>

\* the while loop ends: the payload is exhausted at a command-byte boundary
DecompressExhausted ==
    /\ pc = "cmd"
    /\ cursor >= Len(compressed_data)
    /\ DecompressReturns
    /\ decoded' = decoded \o PySlice(decompress_buffer, 0, decompress_size)
    /\ fresh' = decompress_pos
    /\ UNCHANGED <<inputs, rpos, decompress_buffer, decompress_pos,
                   decompress_size, wlocals, dlocals, out, err, eof_hit,
                   short_payload, min_read>>

\* the command bits read from the least significant end
IsLiteralUnitLsb(cb) == cb % 2 # 1

\* (command_byte & 0x80) != 128
IsLiteralUnit(cb) == ((cb \div 128) % 2) * 128 # 128

\* for _ in range(8): the next unit, or back to the while test
NextUnit ==
    /\ unit' = unit + 1
    /\ pc' = IF unit + 1 < 8 THEN "unit" ELSE "cmd"

\* literal: buffer[pos] = data[cursor]; pos += 1; cursor += 1; cmd <<= 1
DecompressLiteral ==
    /\ pc = "unit"
    /\ IsLiteralUnit(command_byte)
    /\ IF PyIndexOk(compressed_data, cursor)
          /\ PyIndexOk(decompress_buffer, decompress_pos)
       THEN /\ decompress_buffer' =
                 [decompress_buffer EXCEPT ![decompress_pos + 1] =
                                              PyIndex(compressed_data, cursor)]
            /\ decompress_pos' = decompress_pos + 1
            /\ cursor' = cursor + 1
            /\ command_byte' = command_byte * 2
            /\ NextUnit
            /\ UNCHANGED err
       ELSE /\ Fail(ErrIndex)
            /\ UNCHANGED <<decompress_buffer, decompress_pos, cursor,
                           command_byte, unit>>
    /\ UNCHANGED <<inputs, rpos, decompress_size, wlocals, compressed_size,
                   compressed_data, out, nd, hist>>

\* token fields: _1 = data[cursor]; _1a = _1 & 0xF0; _1b = _1 & 0x0F;
\* _2 = data[cursor + 1]; offset = (_1a << 4) + _2
HasB1 == PyIndexOk(compressed_data, cursor)
HasB2 == PyIndexOk(compressed_data, cursor + 1)
HasB3 == PyIndexOk(compressed_data, cursor + 2)
b1 == PyIndex(compressed_data, cursor)
b2 == PyIndex(compressed_data, cursor + 1)
b3 == PyIndex(compressed_data, cursor + 2)
HighNibble(b) == (b \div 16) * 16
LowNibble(b)  == b % 16
\* an offset built from the wrong nibble of the first token byte
TokenOffsetLowNibble(x1, x2) == LowNibble(x1) * 256 + x2
TokenOffset(x1, x2) == HighNibble(x1) * 16 + x2
\* repeat counts one short: 17 where the code has 18
RepeatCountOneShort(x1, x3) ==
    IF LowNibble(x1) = 0 THEN x3 + 17 ELSE 17 - LowNibble(x1)

\* repeat_count = data[cursor] + 18 if _1b == 0 else 18 - _1b
RepeatCount(x1, x3) == IF LowNibble(x1) = 0 THEN x3 + 18 ELSE 18 - LowNibble(x1)
TokenLen(x1) == IF LowNibble(x1) = 0 THEN 3 ELSE 2
\* an offset check against the declared size instead of the write cursor
OffsetInvalidVsSize(off, pos) == off > decompress_size
\* if offset > self.decompress_pos: raise
OffsetInvalid(off, pos) == off > pos

\* one pass of the copy loop: buffer[pos] = buffer[pos - offset]; pos += 1
\* (either index out of range raises IndexError and ends the loop)
CopyByte(st, off) ==
    IF st.ok /\ PyIndexOk(st.buf, st.pos - off) /\ PyIndexOk(st.buf, st.pos)
    THEN [buf |-> [st.buf EXCEPT ![st.pos + 1] = PyIndex(st.buf, st.pos - off)],
          pos |-> st.pos + 1, ok |-> TRUE]
    ELSE [st EXCEPT !.ok = FALSE]

\* n passes of the loop in order (the first half of them, then the rest)
RECURSIVE CopyBytes(_, _, _)
CopyBytes(st, off, n) ==
    IF ~st.ok \/ n <= 0 THEN st
    ELSE IF n = 1 THEN CopyByte(st, off)
    ELSE CopyBytes(CopyBytes(st, off, n \div 2), off, n - (n \div 2))

\* a block copy: all n bytes are read before any of them is written
BackRefCopyBlock(buf, pos, off, n) ==
    [buf |-> SubSeq(PySliceAssign(buf, pos, pos + n,
                                  PySlice(buf, pos - off, pos - off + n)),
                    1, Len(buf)),
     pos |-> Min(pos + n, Len(buf)),
     ok  |-> pos + n <= Len(buf)]

\* for _ in range(repeat_count): buffer[pos] = buffer[pos - offset]; pos += 1
BackRefCopy(buf, pos, off, n) ==
    CopyBytes([buf |-> buf, pos |-> pos, ok |-> TRUE], off, n)

IsTokenUnit == pc = "unit" /\ ~IsLiteralUnit(command_byte)

\* the payload ends inside the token: data[cursor] raises IndexError
DecompressTokenTruncated ==
    /\ IsTokenUnit
    /\ \/ ~HasB1
       \/ ~HasB2
       \/ /\ HasB1 /\ HasB2
          /\ TokenOffset(b1, b2) # 0
          /\ ~OffsetInvalid(TokenOffset(b1, b2), decompress_pos)
          /\ LowNibble(b1) = 0
          /\ ~HasB3
    /\ cursor' = IF ~HasB1 THEN cursor
                 ELSE IF ~HasB2 THEN cursor + 1 ELSE cursor + 2
    /\ Fail(ErrIndex)
    /\ UNCHANGED <<inputs, rpos, decompress_buffer, decompress_pos,
                   decompress_size, wlocals, compressed_size, compressed_data,
                   command_byte, unit, out, nd, hist>>

\* if offset == 0: return
DecompressSentinel ==
    /\ IsTokenUnit
    /\ HasB1 /\ HasB2
    /\ TokenOffset(b1, b2) = 0
    /\ cursor' = cursor + 2
    /\ DecompressReturns
    /\ decoded' = decoded \o PySlice(decompress_buffer, 0, decompress_size)
    /\ fresh' = decompress_pos
    /\ UNCHANGED <<inputs, rpos, decompress_buffer, decompress_pos,
                   decompress_size, wlocals, compressed_size, compressed_data,
                   command_byte, unit, out, err, eof_hit, short_payload,
                   min_read>>

\* if offset > self.decompress_pos: raise "Invalid compression offset"
DecompressInvalidOffset ==
    /\ IsTokenUnit
    /\ HasB1 /\ HasB2
    /\ TokenOffset(b1, b2) # 0
    /\ OffsetInvalid(TokenOffset(b1, b2), decompress_pos)
    /\ cursor' = cursor + 2
    /\ Fail(ErrInvalidOffset)
    /\ UNCHANGED <<inputs, rpos, decompress_buffer, decompress_pos,
                   decompress_size, wlocals, compressed_size, compressed_data,
                   command_byte, unit, out, nd, hist>>

\* the back-reference copy; running off the buffer raises IndexError
DecompressBackRef ==
    /\ IsTokenUnit
    /\ HasB1 /\ HasB2
    /\ TokenOffset(b1, b2) # 0
    /\ ~OffsetInvalid(TokenOffset(b1, b2), decompress_pos)
    /\ LowNibble(b1) = 0 => HasB3
    /\ LET off == TokenOffset(b1, b2)
           n   == RepeatCount(b1, IF LowNibble(b1) = 0 THEN b3 ELSE 0)
           r   == BackRefCopy(decompress_buffer, decompress_pos, off, n)
       IN  /\ decompress_buffer' = r.buf
           /\ decompress_pos' = r.pos
           /\ min_read' = Min(min_read, decompress_pos - off)
           /\ cursor' = cursor + TokenLen(b1)
           /\ IF r.ok
              THEN /\ command_byte' = command_byte * 2
                   /\ NextUnit
                   /\ UNCHANGED err
              ELSE /\ Fail(ErrIndex)
                   /\ UNCHANGED <<command_byte, unit>>
    /\ UNCHANGED <<inputs, rpos, decompress_size, wlocals, compressed_size,
                   compressed_data, out, nd, decoded, eof_hit, short_payload,
                   fresh>>

\* ------------------------------------------------------------ the program
Next ==
    \/ WriteDataStart
    \/ RowStart
    \/ RowDone
    \/ CopyChunk
    \/ EmitStart
    \/ EmitRow
    \/ EmitNoRows
    \/ NextDataEof
    \/ NextDataRawOverflow
    \/ NextDataRaw
    \/ NextDataCompressed
    \/ DecompressFirst
    \/ DecompressCommand
    \/ DecompressExhausted
    \/ DecompressLiteral
    \/ DecompressTokenTruncated
    \/ DecompressSentinel
    \/ DecompressInvalidOffset
    \/ DecompressBackRef

Spec == Init /\ [][Next]_vars

TypeOK ==
    /\ pc \in {"write_data", "row", "while", "copy", "emit", "done", "failed",
               "decompress_next", "cmd", "unit"}
    /\ rpos \in 0..Len(stream)
    /\ decompress_pos \in Nat
    /\ decompress_size \in 0..65535
    /\ (pc = "failed") = (err # ErrNone)


\* ================================================================ claims
\* source row yy as write_data stages it: image_data[row_start : row_start+len]
SourceRow(yy) ==
    PySlice(image_data, scan_line_len * (height - yy - 1),
            scan_line_len * (height - yy))

\* the staged rows in source-row order, rows 0 .. n-1
RECURSIVE StagedRows(_)
StagedRows(n) == IF n = 0 THEN << >> ELSE StagedRows(n - 1) \o SourceRow(n - 1)

Staged == pc \in {"emit", "done"}

\* C1: when every chunk decoded without error, the bytes staged in
\* source-row order are the first packed_row_width * height bytes of the
\* concatenated decoded content (bytes 0..size-1) of the chunks loaded, in
\* stream order: nothing skipped, duplicated or reordered.
C1_StagedIsDecodedPrefix ==
    (Staged /\ ~eof_hit /\ ~short_payload)
        => StagedRows(height) = PySlice(decoded, 0, scan_line_len * height)

\* C2: whenever next_data returns after loading a chunk, raw or compressed,
\* the consumption cursor decompress_pos is 0.
C2_CursorResetAfterLoad ==
    (pc = "copy" /\ nd \in {"raw", "compressed"}) => decompress_pos = 0

\* C3: when write_data completes, the emitted pixel data is exactly
\* stride_bytes * height bytes, and emitted row r is source row height-1-r
\* followed by stride_bytes - packed_row_width zero bytes.
C3_EmittedRowsBottomUp ==
    pc = "done" =>
        /\ Len(out) = out_stride_in_bytes * height
        /\ \A r \in 0..(height - 1) :
             PySlice(out, r * out_stride_in_bytes, (r + 1) * out_stride_in_bytes)
               = SourceRow(height - 1 - r)
                   \o Zeros(out_stride_in_bytes - scan_line_len)

\* a raw chunk of at most 1500 bytes whose payload is in the stream
RawChunkAhead ==
    /\ NeedChunk
    /\ Len(header) = 4
    /\ next_decomp_sz <= next_comp_sz
    /\ next_decomp_sz <= BMP_DECOMPRESS_BUFFER_SIZE
    /\ rpos + 4 + next_decomp_sz <= Len(stream)

\* C4: for a raw chunk (declared decompressed size <= declared compressed
\* size, at most 1500) next_data leaves the next declared_decompressed_size
\* stream bytes behind the descriptor in scratch bytes 0..size-1, byte for
\* byte, and sets decompress_size to the declared decompressed size.
C4_RawRoundTrip ==
    [][RawChunkAhead =>
         /\ pc' = "copy"
         /\ decompress_size' = next_decomp_sz
         /\ Len(decompress_buffer') >= next_decomp_sz
         /\ \A i \in 1..next_decomp_sz :
              decompress_buffer'[i] = stream[rpos + 4 + i]]_vars

C4_Witness ==
    /\ pc = "copy" /\ nd = "raw"
    /\ decompress_size = 6
    /\ ~short_payload
    /\ SubSeq(decompress_buffer, 1, 6) = SubSeq(stream, rpos - 5, rpos)

\* C5: when a new chunk is needed and fewer than 4 bytes remain in the
\* stream, next_data fails with TruncatedStream; it does not return
\* normally and row assembly does not continue.
C5_ShortDescriptorFails ==
    [][(NeedChunk /\ Len(stream) - rpos < 4)
         => (pc' = "failed" /\ err' = "TruncatedStream")]_vars

\* C6: when a descriptor declares more payload bytes than remain in the
\* stream, the decode ends in a failure: it never goes back to row assembly
\* with a shortened payload.
C6_ShortPayloadFails ==
    short_payload => pc \in {"cmd", "unit", "failed"}

\* C7: a chunk, raw or compressed, whose declared decompressed size exceeds
\* the scratch capacity of 1500 is rejected with the buffer-overflow failure
\* before its data is used.
C7_OversizeRejected ==
    [][(NeedChunk /\ Len(header) = 4
          /\ next_decomp_sz > BMP_DECOMPRESS_BUFFER_SIZE)
         => (pc' = "failed" /\ err' = ErrOverflow)]_vars

\* a complete two-byte token head at the cursor of a token unit
TokenAhead == IsTokenUnit /\ HasB1 /\ HasB2

\* C8: a back-reference whose non-zero offset is greater than the output
\* write cursor fails with the invalid-offset error before any byte is
\* copied, and no back-reference copy reads an index below 0.
C8_InvalidOffsetRejected ==
    [][/\ (TokenAhead /\ HighNibble(b1) * 16 + b2 > decompress_pos)
          => /\ pc' = "failed"
             /\ err' = ErrInvalidOffset
             /\ decompress_buffer' = decompress_buffer
             /\ decompress_pos' = decompress_pos
       /\ min_read' >= 0]_vars

C8_Witness ==
    /\ pc = "failed"
    /\ err = ErrInvalidOffset
    /\ PyIndex(compressed_data, cursor - 2) = 13
    /\ PyIndex(compressed_data, cursor - 1) = 5
    /\ decompress_pos = 1

\* C9: a token whose computed offset is 0 ends decompression of the chunk
\* at once: no scratch byte is written and no payload byte is interpreted
\* after it, whatever its low nibble, the remaining command bits and the
\* remaining payload bytes are.
C9_SentinelHalts ==
    [][(TokenAhead /\ HighNibble(b1) = 0 /\ b2 = 0)
         => /\ pc' = "copy"
            /\ nd' = "compressed"
            /\ err' = ErrNone
            /\ cursor' = cursor + 2
            /\ decompress_buffer' = decompress_buffer
            /\ decompress_pos' = decompress_pos]_vars

C9_Witness ==
    /\ pc = "copy" /\ nd = "compressed"
    /\ cursor >= 2
    /\ cursor < Len(compressed_data)
    /\ PyIndex(compressed_data, cursor - 2) = 7
    /\ PyIndex(compressed_data, cursor - 1) = 0
    /\ unit < 7

\* a back-reference with 1 <= d <= cursor whose n bytes fit the buffer
BackRefAhead ==
    /\ TokenAhead
    /\ TokenOffset(b1, b2) >= 1
    /\ TokenOffset(b1, b2) <= decompress_pos
    /\ LowNibble(b1) = 0 => HasB3
    /\ decompress_pos
         + RepeatCount(b1, IF LowNibble(b1) = 0 /\ HasB3 THEN b3 ELSE 0)
         <= Len(decompress_buffer)

\* C10: a back-reference with offset d (1 <= d <= cursor c) and repeat count
\* n appends exactly n bytes; byte c+i equals byte c+i-d for every i in
\* 0..n-1 (so the last d bytes before c repeat when d < n), and the bytes
\* below c are unchanged.
C10_OverlappingCopy ==
    [][BackRefAhead =>
         LET c == decompress_pos
             d == TokenOffset(b1, b2)
             n == RepeatCount(b1, IF LowNibble(b1) = 0 THEN b3 ELSE 0)
         IN  /\ decompress_pos' = c + n
             /\ Len(decompress_buffer') = Len(decompress_buffer)
             /\ \A i \in 0..(n - 1) :
                  decompress_buffer'[c + i + 1] = decompress_buffer'[c + i - d + 1]
             /\ \A j \in 1..c : decompress_buffer'[j] = decompress_buffer[j]
             /\ \A j \in (c + n + 1)..Len(decompress_buffer) :
                  decompress_buffer'[j] = decompress_buffer[j]]_vars

C10_Witness ==
    /\ pc = "unit"
    /\ decompress_pos = 7
    /\ cursor = 5
    /\ SubSeq(decompress_buffer, 1, 8) = <<65, 66, 65, 66, 65, 66, 65, 0>>

\* C11: in every reachable state of a decode session
\* 0 <= decompress_pos <= decompress_size <= 1500.
C11_CursorSizeCapacity ==
    /\ 0 <= decompress_pos
    /\ decompress_pos <= decompress_size
    /\ decompress_size <= BMP_DECOMPRESS_BUFFER_SIZE

\* The program runs on its own: a step that can be taken is taken.
FairSpec == Init /\ [][Next]_vars /\ WF_vars(Next)

\* C12: for every stream, width and height write_data eventually finishes
\* filling the rows or ends in a failure; the row-fill loop never runs
\* forever.
C12_WriteDataTerminates == <>(pc \in {"emit", "done", "failed"})

\* C13: a chunk descriptor is read only while a row still has remaining > 0
\* bytes to fill and the scratch buffer is exhausted (position >= size);
\* once the last row is filled no further stream byte is read, even if the
\* stream has trailing bytes.
C13_ReadsOnlyOnDemand ==
    [][/\ (pc = "while" /\ pc' \notin {"while", "row"})
            => (y < height /\ remaining > 0
                  /\ decompress_pos >= decompress_size)
       /\ (rpos' # rpos)
            => (pc \in {"while", "decompress_next"}
                  /\ y < height /\ remaining > 0)
       /\ (pc \in {"emit", "done"}) => rpos' = rpos]_vars

C13_Witness ==
    /\ pc = "done"
    /\ rpos > 0
    /\ rpos < Len(stream)
    /\ Len(out) = out_stride_in_bytes * height

\* the step just taken is a literal copy: the payload byte at the cursor
\* lands unchanged at the output cursor and both cursors advance by 1
LiteralCopied ==
    /\ pc' # "failed"
    /\ PyIndexOk(compressed_data, cursor)
    /\ PyIndexOk(decompress_buffer, decompress_pos)
    /\ decompress_buffer' =
         [decompress_buffer EXCEPT ![decompress_pos + 1] =
                                      PyIndex(compressed_data, cursor)]
    /\ decompress_pos' = decompress_pos + 1
    /\ cursor' = cursor + 1

\* bit 7-k of the command byte the current unit k belongs to
CommandBit == ((command_byte \div (2 ^ unit)) \div (2 ^ (7 - unit))) % 2

\* C14: the first payload byte is copied to output index 0, and the bits of
\* a command byte are interpreted most-significant first: unit k (0..7) is a
\* literal, copied unchanged with both cursors advanced by 1, exactly when
\* bit 7-k of the command byte is 0.
C14_MsbFirstLiterals ==
    [][/\ (pc = "decompress_next" /\ compressed_size > 0 /\ rpos < Len(stream))
            => /\ decompress_buffer'[1] = stream[rpos + 1]
               /\ decompress_pos' = 1
               /\ cursor' = 1
       /\ (pc = "unit" /\ CommandBit = 0
             /\ PyIndexOk(compressed_data, cursor)
             /\ PyIndexOk(decompress_buffer, decompress_pos))
            => LiteralCopied
       /\ (pc = "unit" /\ CommandBit = 1) => ~LiteralCopied]_vars

C14_Witness ==
    /\ pc = "cmd"
    /\ unit = 8
    /\ cursor = 10
    /\ decompress_pos = 9
    /\ SubSeq(decompress_buffer, 1, 9) = <<65, 66, 67, 68, 69, 70, 71, 72, 73>>
    /\ SubSeq(compressed_data, 1, 10) = <<65, 0, 66, 67, 68, 69, 70, 71, 72, 73>>

\* --------------------------------------------------- token field arithmetic
\* Streams of one compressed chunk whose payload is 0x41, cmd 0x10, three
\* literals and a token x1 x2 x3 (the token is unit 3, at output cursor 4),
\* for every first token byte and chosen second and third ones.
TokB2 == {0, 1, 4, 255}
TokB3 == {0, 1, 255}
TokenStreams ==
    {<<9, 1, 8, 0, 65, 16, 66, 67, 68, x1, x2, x3>> :
        x1 \in 0..255, x2 \in TokB2, x3 \in TokB3}

\* the decode sessions of Init and those of a 1 x 1, 8-bit image over the
\* token streams
TokenInit ==
    \/ Init
    \/ /\ stream \in TokenStreams
       /\ bits_per_pixel = 8
       /\ width = 1
       /\ height = 1
       /\ rpos = 0
       /\ decompress_buffer = Zeros(BMP_DECOMPRESS_BUFFER_SIZE)
       /\ decompress_pos = 0
       /\ decompress_size = 0
       /\ image_data = << >>
       /\ y = 0 /\ remaining = 0 /\ offset = 0
       /\ compressed_size = 0 /\ compressed_data = << >>
       /\ cursor = 0 /\ command_byte = 0 /\ unit = 0
       /\ out = << >>
       /\ pc = "write_data" /\ err = ErrNone
       /\ nd = "none"
       /\ decoded = << >>
       /\ eof_hit = FALSE /\ short_payload = FALSE
       /\ min_read = BMP_DECOMPRESS_BUFFER_SIZE
       /\ fresh = 0

TokenSpec == TokenInit /\ [][Next]_vars

\* a & b and a | b on natural numbers, bit by bit
RECURSIVE BitAnd(_, _)
BitAnd(a, b) ==
    IF a = 0 \/ b = 0 THEN 0
    ELSE (IF a % 2 = 1 /\ b % 2 = 1 THEN 1 ELSE 0)
           + 2 * BitAnd(a \div 2, b \div 2)

RECURSIVE BitOr(_, _)
BitOr(a, b) ==
    IF a = 0 THEN b
    ELSE IF b = 0 THEN a
    ELSE (IF a % 2 = 1 \/ b % 2 = 1 THEN 1 ELSE 0)
           + 2 * BitOr(a \div 2, b \div 2)

\* C15: for token bytes b1, b2 (and b3) the offset is
\* ((b1 & 0xF0) << 4) | b2, a value in 0..4095; the repeat count is
\* 18 - (b1 & 0x0F), in 3..17, when the low nibble is non-zero and b3 + 18,
\* in 18..273, otherwise; the token takes 2 payload bytes when the low
\* nibble is non-zero and 3 when it is zero.
C15_TokenFields ==
    [][TokenAhead =>
         LET off  == TokenOffset(b1, b2)
             low  == BitAnd(b1, 15)
             n    == decompress_pos' - decompress_pos
             used == cursor' - cursor
         IN  /\ off = BitOr(BitAnd(b1, 240) * 16, b2)
             /\ off \in 0..4095
             /\ (pc' # "failed" /\ off # 0) =>
                  IF low # 0
                  THEN n = 18 - low /\ n \in 3..17 /\ used = 2
                  ELSE n = b3 + 18 /\ n \in 18..273 /\ used = 3]_vars

C15_Witness ==
    /\ stream \in TokenStreams
    /\ pc = "unit"
    /\ unit = 4
    /\ cursor = 8
    /\ PyIndex(compressed_data, 5) = 0
    /\ PyIndex(compressed_data, 6) = 4
    /\ PyIndex(compressed_data, 7) = 255
    /\ decompress_pos = 4 + 273

\* C16: whenever a literal write or a back-reference copy would move the
\* output write cursor past the scratch capacity of 1500, the decode fails
\* with the buffer-overflow failure; no byte is written at index 1500 or
\* above and the buffer is not grown.
C16_OverflowFails ==
    [][/\ (pc = "unit" /\ CommandBit = 0
             /\ PyIndexOk(compressed_data, cursor)
             /\ decompress_pos >= BMP_DECOMPRESS_BUFFER_SIZE)
            => (pc' = "failed" /\ err' = ErrOverflow)
       /\ (/\ TokenAhead
           /\ TokenOffset(b1, b2) >= 1
           /\ TokenOffset(b1, b2) <= decompress_pos
           /\ LowNibble(b1) = 0 => HasB3
           /\ decompress_pos
                + RepeatCount(b1, IF LowNibble(b1) = 0 /\ HasB3 THEN b3 ELSE 0)
                > BMP_DECOMPRESS_BUFFER_SIZE)
            => (pc' = "failed" /\ err' = ErrOverflow)
       /\ Len(decompress_buffer') <= BMP_DECOMPRESS_BUFFER_SIZE]_vars

\* the payload has no byte left for the read that comes next: at a
\* command-byte boundary, inside the eight units of a command byte, or
\* between the two bytes of a token
PayloadExhausted ==
    \/ pc = "cmd" /\ cursor >= Len(compressed_data)
    \/ pc = "unit" /\ ~HasB1
    \/ IsTokenUnit /\ HasB1 /\ ~HasB2

\* C17: decompress_next completes normally, keeping the bytes decoded so
\* far, whenever the payload is exhausted without a sentinel, wherever the
\* payload ends: after a full group of eight units, part-way through the
\* units of a command byte, or part-way through a token.
C17_ExhaustionReturns ==
    [][PayloadExhausted
         => /\ pc' = "copy"
            /\ err' = ErrNone
            /\ decompress_buffer' = decompress_buffer
            /\ decompress_pos' = decompress_pos]_vars

\* C18: the scratch buffer keeps its length of 1500 in every reachable
\* state, whatever was loaded (raw or compressed, complete or truncated).
C18_BufferLengthFixed ==
    Len(decompress_buffer) = BMP_DECOMPRESS_BUFFER_SIZE

\* C19: if chunk loading or decompression fails at any point of write_data,
\* no pixel byte has been written to the output stream; rows are emitted
\* only after every row is staged, so output exists only once the staging
\* loop is over.
C19_NoOutputOnFailure ==
    /\ pc = "failed" => out = << >>
    /\ out # << >> => pc \in {"emit", "done"}

\* a load failed after the first of two rows had been staged
C19_Witness ==
    /\ pc = "failed"
    /\ height = 2
    /\ y = 1
    /\ err = ErrInvalidOffset
    /\ out = << >>

\* C20: every byte the assembler copies out of the scratch buffer into the
\* image was written by the load of the current chunk; stale bytes of an
\* earlier chunk or the initial zeros are never copied, including when a
\* compressed chunk materializes fewer bytes than it declares and when the
\* stream ends early.
C20_OnlyFreshBytesCopied ==
    [][(/\ pc \in {"copy", "while"}
        /\ pc' = "while"
        /\ decompress_pos' > decompress_pos)
         => decompress_pos' <= fresh]_vars

====
